---- MODULE Spec2Model ----
(***************************************************************************)
(* A model of preconceive (src/app.py): the /pick request handler with its *)
(* per-client rate window and per-owner catalog cache, the paginated       *)
(* catalog fetcher, and the colour classifier and orderer.                 *)
(*                                                                         *)
(* Time is counted in whole seconds.  Python values that the code converts *)
(* or tests are modelled by what the conversion does to them (int(),       *)
(* str.strip(), str.lower(), str.upper(), truthiness).  An exception that  *)
(* leaves a function is the value Raise(name).                             *)
(***************************************************************************)
EXTENDS Integers, Sequences, FiniteSets, TLC

VARIABLES
    clock,            \* the value time() returns now
    requests_by_ip,   \* client id -> deque of admission timestamps (front first)
    cache_by_user,    \* owner -> NoEntry or [decks, ts]
    req,              \* the /pick request handled last (its inputs)
    resp,             \* the response to it
    run,              \* what the handler did while handling it
    call,             \* a direct call of one of the pure functions: [fn, arg, ret]
    threads           \* request thread -> where it is in the handler, and its locals

vars == <<clock, requests_by_ip, cache_by_user, req, resp, run, call, threads>>

Range(s) == {s[i] : i \in 1..Len(s)}

\* A function returns val, or an exception exc leaves it.
Ret(v) == [exc |-> "", val |-> v]
Raise(e) == [exc |-> e, val |-> <<>>]
\* a call that has not returned yet
Pending == [exc |-> "pending", val |-> <<>>]

(***************************************************************************)
(* Python values found as colour counts in upstream JSON.                  *)
(*   int     the integer v                                                 *)
(*   float   the finite float v + 0.5 (v >= 0)                             *)
(*   inf     the float infinity (json reads 1e999 as inf)                  *)
(*   nan     the float NaN                                                 *)
(*   numstr  the string of the decimal integer v                           *)
(*   text    a string that is no number                                    *)
(*   none    None (JSON null)                                              *)
(*   missing the key is not in the mapping                                 *)
(***************************************************************************)
PyVal(t, v) == [t |-> t, v |-> v]
Missing == PyVal("missing", 0)

\* int(x) of Python
int(x) ==
    CASE x.t = "int" -> Ret(x.v)
      [] x.t = "float" -> Ret(x.v)
      [] x.t = "numstr" -> Ret(x.v)
      [] x.t = "inf" -> Raise("OverflowError")
      [] x.t = "nan" -> Raise("ValueError")
      [] x.t = "text" -> Raise("ValueError")
      [] OTHER -> Raise("TypeError")

\* colors_dict.get(key, 0)
dict_get(colors_dict, key) ==
    IF colors_dict[key] = Missing THEN PyVal("int", 0) ELSE colors_dict[key]

Letters == {"W", "U", "B", "R", "G"}
NoColors == [k \in Letters |-> Missing]

(***************************************************************************)
(* A deck record: id (<<>> when absent or null), name (a string as the      *)
(* sequence of its pieces, <<>> when absent or empty), featured ("" when   *)
(* absent), the colors field ([shape, map]: shape "dict" with the mapping  *)
(* map, "absent", or "list" for a value that is no mapping) and size.      *)
(* Every record carries an integer size: fetch_all_decks indexes           *)
(* deck['size'] directly.                                                  *)
(***************************************************************************)
NoId == <<>>
Deck(id, name, featured, shape, map, size) ==
    [id |-> id, name |-> name, featured |-> featured,
     colors |-> [shape |-> shape, map |-> map], size |-> size]

ordered_keys == <<"W", "U", "B", "R", "G">>

RECURSIVE extract_loop(_, _, _)
extract_loop(colors_dict, k, result) ==
    IF k > Len(ordered_keys) THEN Ret(result)
    ELSE LET key == ordered_keys[k]
             conv == int(dict_get(colors_dict, key))
             caught == conv.exc \in {"TypeError", "ValueError"}
             count == IF caught THEN 0 ELSE conv.val
         IN  IF conv.exc # "" /\ ~caught THEN Raise(conv.exc)
             ELSE extract_loop(colors_dict, k + 1,
                               IF count > 0 THEN Append(result, key) ELSE result)

extract_colors_raw(deck) ==
    IF deck.colors.shape = "dict"
    THEN extract_loop(deck.colors.map, 1, <<>>)
    ELSE Ret(<<>>)

base_order == <<"W", "U", "B", "R", "G">>

order2 ==
    << <<"W","U">>, <<"U","B">>, <<"B","R">>, <<"R","G">>, <<"G","W">>,
       <<"W","B">>, <<"U","R">>, <<"B","G">>, <<"R","W">>, <<"G","U">> >>

order3_without_gur ==
    << <<"W","U","B">>, <<"U","B","R">>, <<"B","R","G">>, <<"R","G","W">>,
       <<"G","W","U">>, <<"W","B","G">>, <<"U","R","W">>, <<"B","G","U">>,
       <<"R","W","B">>, <<"W","U","B">> >>
order3 ==
    << <<"W","U","B">>, <<"U","B","R">>, <<"B","R","G">>, <<"R","G","W">>,
       <<"G","W","U">>, <<"W","B","G">>, <<"U","R","W">>, <<"B","G","U">>,
       <<"R","W","B">>, <<"G","U","R">> >>

order4 ==
    << <<"W","U","B","R">>, <<"U","B","R","G">>, <<"B","R","G","W">>,
       <<"R","G","W","U">>, <<"G","W","U","B">> >>

five_colors_swapped == <<"W", "U", "B", "G", "R">>
five_colors == <<"W", "U", "B", "R", "G">>

\* the first table entry with the target's members; <<>> (None) when there is none
RECURSIVE pick_from(_, _, _)
pick_from(target_set, sequences, k) ==
    IF k > Len(sequences) THEN <<>>
    ELSE IF Range(sequences[k]) = target_set THEN sequences[k]
    ELSE pick_from(target_set, sequences, k + 1)

pick_from_orders(target_set, sequences) == pick_from(target_set, sequences, 1)

order_colors(colors) ==
    LET color_set == Range(colors)
        n == Cardinality(color_set)
        picked2 == pick_from_orders(color_set, order2)
        picked3 == pick_from_orders(color_set, order3)
        picked4 == pick_from_orders(color_set, order4)
    IN  IF color_set = {} THEN <<>>
        ELSE IF n = 1 THEN <<CHOOSE c \in color_set : TRUE>>
        ELSE IF n = 2 /\ picked2 # <<>> THEN picked2
        ELSE IF n = 3 /\ picked3 # <<>> THEN picked3
        ELSE IF n = 4 /\ picked4 # <<>> THEN picked4
        ELSE IF n = 5 THEN five_colors
        ELSE SelectSeq(base_order, LAMBDA c : c \in color_set)

\* The return statement of order_colors that a call comes to.
order_branch(colors) ==
    LET color_set == Range(colors)
        n == Cardinality(color_set)
    IN  IF color_set = {} THEN "empty"
        ELSE IF n = 1 THEN "single"
        ELSE IF n = 2 /\ pick_from_orders(color_set, order2) # <<>> THEN "order2"
        ELSE IF n = 3 /\ pick_from_orders(color_set, order3) # <<>> THEN "order3"
        ELSE IF n = 4 /\ pick_from_orders(color_set, order4) # <<>> THEN "order4"
        ELSE IF n = 5 THEN "five"
        ELSE "fallback"

\* deck_colors of pick: order_colors(extract_colors_raw(deck))
deck_colors(deck) ==
    LET raw == extract_colors_raw(deck)
    IN  IF raw.exc # "" THEN raw ELSE Ret(order_colors(raw.val))

(***************************************************************************)
(* The upstream API as one request sees it: the page chain of one owner.   *)
(* Page p is at URL <<owner, p>> and links to page p + 1; the last page    *)
(* links to page `back`, or has no next (absent or null) when back = 0.    *)
(* A page answers with a transport failure (fail: "ConnectionError" or     *)
(* "Timeout"), or with an HTTP status and, read as JSON, a results list    *)
(* (which may be absent).                                                  *)
(***************************************************************************)
NoUrl == <<>>
Page(fail, status, has_results, results) ==
    [fail |-> fail, status |-> status, has_results |-> has_results, results |-> results]

\* ARCHIDEKT_USER_URL.format(username=username)
UserUrl(username) == <<username, 1>>

\* data.get("next", None) of the page at url
next_url(up, url) ==
    LET p == url[2]
    IN  IF p < Len(up.pages) THEN <<url[1], p + 1>>
        ELSE IF up.back = 0 THEN NoUrl
        ELSE <<url[1], up.back>>

\* resp.raise_for_status() raises HTTPError on a 4xx or 5xx status
raise_for_status(status) == 400 <= status /\ status < 600

page_limit == 10

too_many_pages_early(i) == i >= page_limit
too_many_pages(i) == i > page_limit

size_filter_none(decks) == decks
size_filter_loose(decks) == SelectSeq(decks, LAMBDA deck : deck.size >= 100)
size_filter(decks) == SelectSeq(decks, LAMBDA deck : deck.size = 100)

\* One iteration of `while url:`; gets lists the URLs requested so far.
RECURSIVE fetch_loop(_, _, _, _, _)
fetch_loop(up, url, i, decks, gets) ==
    IF url = NoUrl THEN [exc |-> "", val |-> size_filter(decks), gets |-> gets]
    ELSE LET page == up.pages[url[2]]
             sent == Append(gets, url)
             page_decks == IF page.has_results THEN page.results ELSE <<>>
             decks2 == IF page_decks # <<>> THEN decks \o page_decks ELSE decks
         IN  IF page.fail # ""
             THEN [exc |-> page.fail, val |-> <<>>, gets |-> sent]
             ELSE IF raise_for_status(page.status)
             THEN [exc |-> "HTTPError", val |-> <<>>, gets |-> sent]
             ELSE IF too_many_pages(i + 1)
             THEN [exc |-> "", val |-> size_filter(decks2), gets |-> sent]
             ELSE fetch_loop(up, next_url(up, url), i + 1, decks2, sent)

fetch_all_decks(start_url, up) == fetch_loop(up, start_url, 0, <<>>, <<>>)

(***************************************************************************)
(* The /pick handler.  Strings of the query are sequences of pieces: a     *)
(* username is whitespace pieces " " around name pieces, a colors string   *)
(* is a sequence of characters, a filter_type is one word.                 *)
(***************************************************************************)
ALLOWED_USERS ==
    {"Archidekt_Precons", "jarnr", "pertrick", "Bowden1337", "jden007",
     "tolariancommunitycollege"}

CACHE_TTL_SECONDS == 300
RATE_LIMIT_WINDOW == 60
RATE_LIMIT_MAX == 30

Clients == {"10.0.0.1", "10.0.0.2", "unknown"}

NoEntry == [present |-> FALSE, decks |-> <<>>, ts |-> 0]
Entry(decks, ts) == [present |-> TRUE, decks |-> decks, ts |-> ts]

\* A query argument or header: given with value s, or absent.
Arg(s) == [given |-> TRUE, s |-> s]
Absent == [given |-> FALSE, s |-> <<>>]
AbsentWord == [given |-> FALSE, s |-> ""]
args_get(arg, default) == IF arg.given THEN arg.s ELSE default

\* str.strip(): whitespace pieces leave both ends
RECURSIVE lstrip(_)
lstrip(s) == IF s # <<>> /\ Head(s) = " " THEN lstrip(Tail(s)) ELSE s
RECURSIVE rstrip(_)
rstrip(s) ==
    IF s # <<>> /\ s[Len(s)] = " " THEN rstrip(SubSeq(s, 1, Len(s) - 1)) ELSE s
strip(s) == rstrip(lstrip(s))

\* str.lower() of a filter_type word
lower(w) ==
    CASE w = "EXACT" -> "exact"
      [] w = "Exact" -> "exact"
      [] w = "SUBSET" -> "subset"
      [] w = "Subset" -> "subset"
      [] w = "ANY" -> "any"
      [] OTHER -> w

\* str.upper() of one character
upper_char(c) ==
    CASE c = "w" -> "W"
      [] c = "u" -> "U"
      [] c = "b" -> "B"
      [] c = "r" -> "R"
      [] c = "g" -> "G"
      [] c = "x" -> "X"
      [] OTHER -> c

\* set(s.upper())
upper_set(s) == {upper_char(s[i]) : i \in 1..Len(s)}

client_ip_peer(r) == IF r.remote_addr = "" THEN "unknown" ELSE r.remote_addr
\* request.headers.get('X-Forwarded-For', request.remote_addr) or 'unknown'
\* (remote_addr "" stands for None: both are falsy)
client_ip(r) ==
    LET h == IF r.xff.given THEN r.xff.s ELSE r.remote_addr
    IN  IF h = "" THEN "unknown" ELSE h

expired_at_window(now, t) == (now - t) >= RATE_LIMIT_WINDOW
expired(now, t) == (now - t) > RATE_LIMIT_WINDOW

\* while q and (now - q[0]) > RATE_LIMIT_WINDOW: q.popleft()
prune_nothing(q, now) == q
RECURSIVE prune(_, _)
prune(q, now) ==
    IF q # <<>> /\ expired(now, Head(q)) THEN prune(Tail(q), now) ELSE q

limit_reached_late(q) == Len(q) > RATE_LIMIT_MAX
limit_reached(q) == Len(q) >= RATE_LIMIT_MAX

username_allowed(username) == Len(username) = 1 /\ username[1] \in ALLOWED_USERS

filter_type_valid(filter_type) == filter_type \in {"exact", "subset"}

colors_valid_any(colors) == TRUE
colors_valid(colors) == \A c \in colors : c \in {"W", "U", "B", "R", "G"}

fresh_never(cached, now) == FALSE
fresh_at_ttl(cached, now) == cached.present /\ (now - cached.ts) <= CACHE_TTL_SECONDS
\* cached and (now - cached.get("ts", 0)) < CACHE_TTL_SECONDS
fresh(cached, now) == cached.present /\ (now - cached.ts) < CACHE_TTL_SECONDS

caught_http_only(exc) == exc = "HTTPError"
\* except requests.HTTPError / except requests.RequestException
caught(exc) == exc \in {"HTTPError", "ConnectionError", "Timeout"}

passes_subset_only(filter_type, colors, dc) == Range(dc) \subseteq colors
passes(filter_type, colors, dc) ==
    IF filter_type = "exact" THEN Range(dc) = colors ELSE Range(dc) \subseteq colors

\* build_deck_url: <<>> is None
build_deck_url(deck) ==
    IF deck.id = NoId THEN <<>> ELSE <<"https://archidekt.com/decks/">> \o deck.id

\* chosen.get("name", "").replace(" - jarcon", "").strip(), or the placeholder
deck_title(deck) ==
    LET t == strip(SelectSeq(deck.name, LAMBDA x : x # " - jarcon"))
    IN  IF t = <<>> THEN <<"Deck Name Not Found">> ELSE t

NoBody == [url |-> <<>>, title |-> <<>>, image |-> "", colors |-> <<>>]
Response(text, status) == [status |-> status, text |-> text, body |-> NoBody]
jsonify(body) == [status |-> 200, text |-> "", body |-> body]
NoResp == Response("", 0)

\* What the handler did: where it returned, the now it captured, the client, how
\* many timestamps it pruned, whether the cache was fresh, the URLs it requested,
\* the exception of the fetch, and the catalog, pool and deck it worked on
\* (chosen: a sequence of no or one deck).
Ran(step, now, ip, pruned, hit, fetch, all_decks, pool, chosen) ==
    [step |-> step, now |-> now, ip |-> ip, pruned |-> pruned, hit |-> hit,
     gets |-> fetch.gets, exc |-> fetch.exc,
     all_decks |-> all_decks, pool |-> pool, chosen |-> chosen]
NoFetch == [exc |-> "", val |-> <<>>, gets |-> <<>>]
NoRun == Ran("none", 0, "unknown", 0, FALSE, NoFetch, <<>>, <<>>, <<>>)

\* The handler on request r, with the owner's upstream chain up and the index
\* random.choice draws (reduced modulo the pool's length): the new rate windows and cache, the response, and the
\* record of the run.  lines 173-241
pick(r, up, choice) ==
    LET ip == client_ip(r)
        now == clock
        q0 == requests_by_ip[ip]
        q == prune(q0, now)
        pruned == Len(q0) - Len(q)
        admitted == [requests_by_ip EXCEPT ![ip] = Append(q, now)]
        username == strip(args_get(r.username, <<"Archidekt_Precons">>))
        filter_type == lower(args_get(r.filter_type, "subset"))
        colors == upper_set(args_get(r.colors, <<"W", "U", "B", "R", "G">>))
        owner == username[1]
        cached == cache_by_user[owner]
        hit == fresh(cached, now)
        fetched == IF hit THEN NoFetch ELSE fetch_all_decks(UserUrl(owner), up)
        all_decks == IF hit THEN cached.decks ELSE fetched.val
        cache2 == IF hit THEN cache_by_user
                  ELSE [cache_by_user EXCEPT ![owner] = Entry(fetched.val, now)]
        raising == {i \in 1..Len(all_decks) : deck_colors(all_decks[i]).exc # ""}
        filtered == SelectSeq(all_decks,
                       LAMBDA d : passes(filter_type, colors, deck_colors(d).val))
        decks_pool == IF filtered # <<>> THEN filtered ELSE all_decks
        chosen == decks_pool[((choice - 1) % Len(decks_pool)) + 1]
        deck_url == build_deck_url(chosen)
    IN  IF limit_reached(q)
        THEN [requests_by_ip |-> [requests_by_ip EXCEPT ![ip] = q],
              cache_by_user |-> cache_by_user,
              resp |-> Response("Too many requests", 429),
              run |-> Ran("rate_limit", now, ip, pruned, FALSE, NoFetch, <<>>, <<>>, <<>>),
              drawn |-> FALSE]
        ELSE IF ~username_allowed(username)
        THEN [requests_by_ip |-> admitted, cache_by_user |-> cache_by_user,
              resp |-> Response("username is invalid", 400),
              run |-> Ran("username", now, ip, pruned, FALSE, NoFetch, <<>>, <<>>, <<>>),
              drawn |-> FALSE]
        ELSE IF ~filter_type_valid(filter_type)
        THEN [requests_by_ip |-> admitted, cache_by_user |-> cache_by_user,
              resp |-> Response("filter_type is invalid", 400),
              run |-> Ran("filter_type", now, ip, pruned, FALSE, NoFetch, <<>>, <<>>, <<>>),
              drawn |-> FALSE]
        ELSE IF ~colors_valid(colors)
        THEN [requests_by_ip |-> admitted, cache_by_user |-> cache_by_user,
              resp |-> Response("colors is invalid", 400),
              run |-> Ran("colors", now, ip, pruned, FALSE, NoFetch, <<>>, <<>>, <<>>),
              drawn |-> FALSE]
        ELSE IF fetched.exc # ""
        THEN [requests_by_ip |-> admitted, cache_by_user |-> cache_by_user,
              resp |-> IF caught(fetched.exc) THEN Response("Upstream error", 502)
                       ELSE Response("Internal Server Error", 500),
              run |-> Ran("upstream", now, ip, pruned, FALSE, fetched, <<>>, <<>>, <<>>),
              drawn |-> FALSE]
        ELSE IF all_decks = <<>>
        THEN [requests_by_ip |-> admitted, cache_by_user |-> cache2,
              resp |-> Response("No decks found", 404),
              run |-> Ran("empty", now, ip, pruned, hit, fetched, all_decks, <<>>, <<>>),
              drawn |-> FALSE]
        ELSE IF raising # {}
        THEN [requests_by_ip |-> admitted, cache_by_user |-> cache2,
              resp |-> Response("Internal Server Error", 500),
              run |-> Ran("filter_error", now, ip, pruned, hit, fetched, all_decks, <<>>, <<>>),
              drawn |-> FALSE]
        ELSE IF deck_url = <<>>
        THEN [requests_by_ip |-> admitted, cache_by_user |-> cache2,
              resp |-> Response("Chosen deck missing id", 500),
              run |-> Ran("missing_id", now, ip, pruned, hit, fetched, all_decks,
                          decks_pool, <<chosen>>),
              drawn |-> TRUE]
        ELSE [requests_by_ip |-> admitted, cache_by_user |-> cache2,
              resp |-> jsonify([url |-> deck_url, title |-> deck_title(chosen),
                                image |-> chosen.featured,
                                colors |-> deck_colors(chosen).val]),
              run |-> Ran("ok", now, ip, pruned, hit, fetched, all_decks,
                          decks_pool, <<chosen>>),
              drawn |-> TRUE]

\* A request: the X-Forwarded-For header and the peer address, and the query
\* arguments username, filter_type and colors.
Request(xff, remote_addr, username, filter_type, colors) ==
    [xff |-> xff, remote_addr |-> remote_addr, username |-> username,
     filter_type |-> filter_type, colors |-> colors]

NoChain == [pages |-> <<>>, back |-> 0]
NoReq == [kind |-> "none", r |-> Request(AbsentWord, "", Absent, AbsentWord, Absent),
          up |-> NoChain]
NoCall == [fn |-> "none", arg |-> <<>>, ret |-> Pending]

MaxDraw == 3

\* The request threads of the server, and a thread that handles no request: pc is
\* the statement it executes next, r its request, now the time() it captured, hit
\* and decks what it got from the cache or the upstream, gets the URLs it
\* requested, resp its response once it is done.
MaxThreads == 2
Threads == 1..MaxThreads
Idle == [pc |-> "idle", r |-> NoReq.r, now |-> 0, hit |-> FALSE, gets |-> <<>>,
         decks |-> <<>>, resp |-> NoResp]

\* GET /pick: the whole handler on request r, the owner's upstream being up.
Pick(r, up) ==
    \E choice \in 1..MaxDraw :
        \E out \in {pick(r, up, choice)} :
            /\ out.drawn \/ choice = 1
            /\ requests_by_ip' = out.requests_by_ip
            /\ cache_by_user' = out.cache_by_user
            /\ resp' = out.resp
            /\ run' = out.run
            /\ req' = [kind |-> "pick", r |-> r, up |-> up]
            /\ UNCHANGED <<clock, call, threads>>

\* Time passes between two requests.
Tick(d, max) ==
    /\ clock + d <= max
    /\ clock' = clock + d
    /\ UNCHANGED <<requests_by_ip, cache_by_user, req, resp, run, call, threads>>

\* The requests of client ip that carry the current time.
Burst(ip) ==
    Cardinality({i \in 1..Len(requests_by_ip[ip]) : requests_by_ip[ip][i] = clock})

InitPick ==
    /\ clock = 0
    /\ requests_by_ip = [c \in Clients |-> <<>>]
    /\ cache_by_user = [u \in ALLOWED_USERS |-> NoEntry]
    /\ req = NoReq
    /\ resp = NoResp
    /\ run = NoRun
    /\ call = NoCall
    /\ threads = [t \in Threads |-> Idle]

\* One catalog page of the decks given.
OnePage(decks) == [pages |-> <<Page("", 200, TRUE, decks)>>, back |-> 0]

PlainDeck(n, size) == Deck(<<n>>, <<"Foo">>, "", "absent", NoColors, size)

(***************************************************************************)
(* SpecRate: one client sends valid and invalid requests while time passes *)
(* in steps of RateTick seconds.                                           *)
(***************************************************************************)
RateTick == 60
RateMaxTime == 180

RateRequests ==
    { Request(AbsentWord, "10.0.0.1", Absent, AbsentWord, Absent),
      Request(Arg("10.0.0.1"), "10.0.0.2", Arg(<<"mallory">>), AbsentWord, Absent),
      Request(AbsentWord, "10.0.0.1", Absent, Arg("ANY"), Absent),
      Request(AbsentWord, "10.0.0.1", Arg(<<" ", "jarnr">>), Arg("Exact"), Arg(<<"w", "x">>)) }

RateChain == OnePage(<<PlainDeck(1, 100)>>)

TickRate == Tick(RateTick, RateMaxTime)

PickRate == \E r \in RateRequests : Pick(r, RateChain)

NextRate == TickRate \/ PickRate

SpecRate == InitPick /\ [][NextRate]_vars

(***************************************************************************)
(* SpecPick: requests for two owners and with invalid arguments, against   *)
(* upstreams that answer or fail, while the cache ages in steps of         *)
(* CacheTick seconds.  At most MaxBurst requests carry the same time.      *)
(***************************************************************************)
CacheTick == 150
CacheMaxTime == 450
MaxBurst == 2

PickRequests ==
    { Request(AbsentWord, "10.0.0.1", Absent, AbsentWord, Absent),
      Request(AbsentWord, "10.0.0.1", Arg(<<" ", "jarnr", " ">>), Arg("SUBSET"), Arg(<<"w", "u">>)),
      Request(AbsentWord, "10.0.0.1", Arg(<<"mallory">>), AbsentWord, Absent),
      Request(AbsentWord, "10.0.0.1", Arg(<<"Jarnr">>), AbsentWord, Absent),
      Request(AbsentWord, "10.0.0.1", Absent, Arg("ANY"), Absent),
      Request(AbsentWord, "10.0.0.1", Arg(<<"jarnr">>), AbsentWord, Arg(<<"W", "x">>)) }

PickChains ==
    { OnePage(<<PlainDeck(1, 100)>>),
      [pages |-> << Page("", 200, TRUE, <<PlainDeck(2, 100), PlainDeck(3, 60)>>),
                    Page("", 200, TRUE, <<PlainDeck(4, 100)>>) >>, back |-> 0],
      [pages |-> << Page("", 503, TRUE, <<PlainDeck(1, 100)>>) >>, back |-> 0],
      [pages |-> << Page("", 200, TRUE, <<PlainDeck(5, 100)>>),
                    Page("Timeout", 0, TRUE, <<PlainDeck(6, 100)>>) >>, back |-> 0],
      [pages |-> << Page("", 200, TRUE, <<PlainDeck(5, 100)>>),
                    Page("ConnectionError", 0, TRUE, <<>>) >>, back |-> 0],
      [pages |-> << Page("", 200, TRUE, <<PlainDeck(5, 100)>>),
                    Page("", 404, TRUE, <<>>) >>, back |-> 0] }

TickPick == Tick(CacheTick, CacheMaxTime)

PickAny ==
    \E r \in PickRequests, up \in PickChains :
        /\ Burst(client_ip(r)) < MaxBurst
        /\ Pick(r, up)

NextPick == TickPick \/ PickAny

SpecPick == InitPick /\ [][NextPick]_vars

(***************************************************************************)
(* SpecSelect: requests with every filter mode and several colour strings  *)
(* against catalogs of decks of several colours; the cache expires with    *)
(* every step of SelectTick seconds.                                       *)
(***************************************************************************)
SelectTick == 300
SelectMaxTime == 300

Counts(w, u, b) ==
    [k \in Letters |-> IF k = "W" THEN w ELSE IF k = "U" THEN u
                       ELSE IF k = "B" THEN b ELSE Missing]

DeckWU == Deck(<<1>>, <<"Azorius", " - jarcon">>, "https://img/1", "dict",
               Counts(PyVal("int", 3), PyVal("int", 2), PyVal("int", 0)), 100)
DeckB == Deck(<<2>>, <<" ", " - jarcon">>, "", "dict",
              Counts(Missing, PyVal("none", 0), PyVal("numstr", 3)), 100)
DeckColorless == Deck(<<3>>, <<>>, "", "list", NoColors, 100)
DeckNoId == Deck(NoId, <<"Esper">>, "", "dict",
                 Counts(PyVal("int", 1), PyVal("float", 2), PyVal("int", 1)), 100)
DeckInf == Deck(<<5>>, <<"Broken">>, "", "dict",
                Counts(PyVal("inf", 0), Missing, Missing), 100)
DeckUW == Deck(<<6>>, <<"Second">>, "", "dict",
               Counts(PyVal("int", 1), PyVal("int", 1), PyVal("text", 0)), 100)

SelectCatalogs ==
    { <<DeckWU, DeckB>>,
      <<DeckB, DeckColorless, DeckUW>>,
      <<DeckNoId, DeckB>>,
      <<DeckWU, DeckInf>>,
      <<DeckB>>,
      <<DeckWU, DeckNoId, DeckUW>> }

SelectRequests ==
    { Request(AbsentWord, "10.0.0.1", Absent, ft, c) :
        ft \in {AbsentWord, Arg("EXACT")},
        c \in {Absent, Arg(<<"w", "u">>), Arg(<<>>), Arg(<<"R">>)} }

TickSelect == Tick(SelectTick, SelectMaxTime)

PickSelect ==
    \E r \in SelectRequests, decks \in SelectCatalogs :
        /\ Burst(client_ip(r)) < MaxBurst
        /\ Pick(r, OnePage(decks))

NextSelect == TickSelect \/ PickSelect

SpecSelect == InitPick /\ [][NextSelect]_vars

(***************************************************************************)
(* Direct calls of the pure functions: the argument is drawn in the        *)
(* initial state and the call stores what the function returns.            *)
(***************************************************************************)

\* Counts a colors mapping may hold for one letter.
CountVals ==
    { Missing, PyVal("int", 0), PyVal("int", 2), PyVal("int", 3), PyVal("int", -1),
      PyVal("float", 0), PyVal("float", 2), PyVal("inf", 0), PyVal("nan", 0),
      PyVal("numstr", 3), PyVal("text", 0), PyVal("none", 0) }

ColorMaps ==
    { [k \in Letters |-> IF k = "W" THEN w ELSE IF k = "U" THEN u
                         ELSE IF k = "B" THEN b ELSE IF k = "R" THEN r ELSE g] :
        w \in CountVals, u \in CountVals, b \in CountVals,
        r \in {Missing, PyVal("int", 1)}, g \in {Missing, PyVal("int", 1)} }

ColorDecks ==
    { Deck(<<1>>, <<"Foo">>, "", "dict", m, 100) : m \in ColorMaps }
    \cup { Deck(<<1>>, <<"Foo">>, "", "absent", NoColors, 100),
           Deck(<<1>>, <<"Foo">>, "", "list", NoColors, 100) }

\* Every listing, in every order, of every subset of the five letters.
ColorLists ==
    { s \in UNION { [1..k -> Letters] : k \in 0..5 } :
        \A i, j \in 1..Len(s) : i # j => s[i] # s[j] }

MaxChain == 13

\* What page p of a chain holds, by the chain's shape.
PageResults(shape, p) ==
    CASE shape = "mixed" ->
            << Deck(<<p, 1>>, <<"Foo">>, "", "absent", NoColors, 100),
               Deck(<<p, 2>>, <<"Foo">>, "", "absent", NoColors, 60),
               Deck(<<p, 3>>, <<"Foo">>, "", "absent", NoColors, 100) >>
      [] shape = "sparse" ->
            IF p % 2 = 0 THEN <<>>
            ELSE << Deck(<<p, 1>>, <<"Foo">>, "", "absent", NoColors, 100) >>
      [] OTHER -> << Deck(<<p, 1>>, <<"Foo">>, "", "absent", NoColors, 101) >>

\* In a "sparse" chain every third page has no results key at all.
Chain(n, back, shape, failAt, fail, status) ==
    [ pages |-> [ p \in 1..n |->
                    IF p = failAt
                    THEN Page(fail, status, TRUE, PageResults(shape, p))
                    ELSE Page("", 200, ~(shape = "sparse" /\ p % 3 = 0),
                              PageResults(shape, p)) ],
      back |-> back ]

Failures == { <<"", 404>>, <<"", 503>>, <<"ConnectionError", 0>>, <<"Timeout", 0>> }

FetchChains ==
    { Chain(n, back, shape, 0, "", 200) :
        n \in 1..MaxChain, back \in {0, 1}, shape \in {"mixed", "sparse", "other"} }
    \cup
    { Chain(n, back, "mixed", failAt, f[1], f[2]) :
        n \in {1, 3, 12}, back \in {0, 1}, failAt \in {1, 2, 11, 12}, f \in Failures }

InitCalls ==
    /\ clock = 0
    /\ requests_by_ip = [c \in Clients |-> <<>>]
    /\ cache_by_user = [u \in ALLOWED_USERS |-> NoEntry]
    /\ req = NoReq
    /\ resp = NoResp
    /\ run = NoRun
    /\ threads = [t \in Threads |-> Idle]
    /\ \/ \E d \in ColorDecks : call = [fn |-> "extract_colors_raw", arg |-> d, ret |-> Pending]
       \/ \E s \in ColorLists : call = [fn |-> "order_colors", arg |-> s, ret |-> Pending]
       \/ \E c \in FetchChains : call = [fn |-> "fetch_all_decks", arg |-> c, ret |-> Pending]

CallExtract ==
    /\ call.fn = "extract_colors_raw" /\ call.ret = Pending
    /\ call' = [call EXCEPT !.ret = extract_colors_raw(call.arg)]
    /\ UNCHANGED <<clock, requests_by_ip, cache_by_user, req, resp, run, threads>>

CallOrder ==
    /\ call.fn = "order_colors" /\ call.ret = Pending
    /\ call' = [call EXCEPT !.ret = Ret(order_colors(call.arg))]
    /\ UNCHANGED <<clock, requests_by_ip, cache_by_user, req, resp, run, threads>>

CallFetch ==
    /\ call.fn = "fetch_all_decks" /\ call.ret = Pending
    /\ call' = [call EXCEPT !.ret = fetch_all_decks(UserUrl("jarnr"), call.arg)]
    /\ UNCHANGED <<clock, requests_by_ip, cache_by_user, req, resp, run, threads>>

NextCalls == CallExtract \/ CallOrder \/ CallFetch

SpecCalls == InitCalls /\ [][NextCalls]_vars

(***************************************************************************)
(* Claims about the pure functions, checked under SpecCalls.               *)
(***************************************************************************)
Returned(fn) == call.fn = fn /\ call.ret # Pending

\* The k-th page a fetch that follows next from page 1 comes to (0: none).
ChainPage(up, k) ==
    LET n == Len(up.pages)
    IN  IF k <= n THEN k
        ELSE IF up.back = 0 THEN 0
        ELSE up.back + ((k - n - 1) % (n - up.back + 1))

\* The results of the first k pages of the chain, in chain order.
RECURSIVE FirstPages(_, _)
FirstPages(up, k) ==
    IF k = 0 THEN <<>>
    ELSE LET page == up.pages[ChainPage(up, k)]
         IN  FirstPages(up, k - 1) \o (IF page.has_results THEN page.results ELSE <<>>)

Size100(decks) == SelectSeq(decks, LAMBDA d : d.size = 100)

FirstUrls(owner, up, k) == [j \in 1..k |-> <<owner, ChainPage(up, j)>>]

\* The first k pages of the chain exist and answer 200.
FirstOk(up, k) ==
    \A j \in 1..k :
        /\ ChainPage(up, j) # 0
        /\ up.pages[ChainPage(up, j)].fail = ""
        /\ up.pages[ChainPage(up, j)].status = 200

LongChain(up) == up.back # 0 \/ Len(up.pages) > page_limit

\* C3 (as stated): on a chain of more than 10 pages (endless and cyclic chains
\* included) fetch_all_decks issues at most 10 GETs, does not raise, and returns
\* the size-100 records of the pages fetched.
C3_StopsAfterTenthPage ==
    Returned("fetch_all_decks") =>
        /\ Len(call.ret.gets) <= 10
        /\ (LongChain(call.arg) /\ FirstOk(call.arg, 10)) =>
              /\ call.ret.exc = ""
              /\ call.ret.gets = FirstUrls("jarnr", call.arg, 10)
              /\ call.ret.val = Size100(FirstPages(call.arg, 10))

\* C3 (amended): fetch_all_decks never issues more than 11 GETs; on a chain of
\* more than 10 pages whose first 11 pages answer, it stops after the 11th page
\* fetch, does not raise, and returns the size-100 records of those 11 pages.
C3_StopsAfterEleventhPage ==
    Returned("fetch_all_decks") =>
        /\ Len(call.ret.gets) <= 11
        /\ (LongChain(call.arg) /\ FirstOk(call.arg, 11)) =>
              /\ call.ret.exc = ""
              /\ call.ret.gets = FirstUrls("jarnr", call.arg, 11)
              /\ call.ret.val = Size100(FirstPages(call.arg, 11))

\* A cyclic chain was fetched: 11 GETs, no error.
C3_Witness ==
    /\ Returned("fetch_all_decks")
    /\ call.arg.back # 0
    /\ call.ret.exc = ""
    /\ Len(call.ret.gets) = 11
    /\ call.ret.val # <<>>

\* C4: on a chain of n <= 10 pages that ends (no next on the last page) and whose
\* pages all answer, fetch_all_decks requests each page once, in chain order, and
\* returns the pages' results concatenated in page order and in-page order,
\* restricted to the records of size 100.
C4_ConcatenatesPagesInOrder ==
    (/\ Returned("fetch_all_decks")
     /\ call.arg.back = 0
     /\ Len(call.arg.pages) <= 10
     /\ FirstOk(call.arg, Len(call.arg.pages))) =>
        /\ call.ret.exc = ""
        /\ call.ret.gets = [j \in 1..Len(call.arg.pages) |-> <<"jarnr", j>>]
        /\ call.ret.val = Size100(FirstPages(call.arg, Len(call.arg.pages)))

\* A 3-page chain was fetched and records of another size were dropped.
C4_Witness ==
    /\ Returned("fetch_all_decks")
    /\ call.arg.back = 0
    /\ Len(call.arg.pages) = 3
    /\ call.ret.exc = ""
    /\ Len(call.ret.val) = 6
    /\ Len(FirstPages(call.arg, 3)) = 9

\* The letters of W,U,B,R,G that are in S, in that order: the classifier's listing.
Listing(S) == SelectSeq(<<"W", "U", "B", "R", "G">>, LAMBDA c : c \in S)

\* C8: for every subset S of the five letters and every order in which S is
\* listed, order_colors returns a permutation of S, the same one as for the
\* classifier's listing of S; <<>> for the empty set and W,U,B,R,G for all five.
C8_OrderIsPermutationAndStable ==
    Returned("order_colors") =>
        LET S == Range(call.arg)
            r == call.ret.val
        IN  /\ call.ret.exc = ""
            /\ Range(r) = S
            /\ Len(r) = Cardinality(S)
            /\ r = order_colors(Listing(S))
            /\ (S = {} => r = <<>>)
            /\ (S = Letters => r = <<"W", "U", "B", "R", "G">>)

\* A three-colour list given in another order than the one returned.
C8_Witness ==
    /\ Returned("order_colors")
    /\ Len(call.arg) = 3
    /\ call.ret.val # call.arg
    /\ call.ret.val # Listing(Range(call.arg))

\* The letters the claim C9 says are returned: those whose count is an integer > 0.
ClaimedColors(deck) ==
    IF deck.colors.shape = "dict"
    THEN SelectSeq(<<"W", "U", "B", "R", "G">>,
                   LAMBDA k : deck.colors.map[k].t = "int" /\ deck.colors.map[k].v > 0)
    ELSE <<>>

\* C9 (as stated): extract_colors_raw returns, in the order W,U,B,R,G, exactly the
\* letters whose count is an integer greater than 0; a missing or non-integer
\* count counts as 0 and nothing is raised; colors absent or no mapping gives [].
C9_ClassifierAsClaimed ==
    Returned("extract_colors_raw") =>
        /\ call.ret.exc = ""
        /\ call.ret.val = ClaimedColors(call.arg)

(***************************************************************************)
(* Claims about the /pick handler.  A step that leaves the clock alone and *)
(* changes the state is the handling of one request: req', resp' and run'  *)
(* describe it and the unprimed variables are the state it found.          *)
(***************************************************************************)
Handled == clock' = clock

\* The timestamps of q that are no more than 60 seconds older than now.
InWindow(q, now) == SelectSeq(q, LAMBDA t : now - t <= 60)

\* C1: a request of a client is admitted, and its now appended to the window after
\* the timestamps more than 60 seconds old have left it, exactly when fewer than 30
\* of the client's timestamps lie within the 60 seconds before now; with 30 there
\* it is answered 429.  So 30 requests in one window are admitted, the 31st is
\* denied, and admission resumes when the earlier timestamps are over 60 s old.
C1_RateLimitWindow ==
    [][Handled =>
        LET ip == client_ip(req'.r)
            live == InWindow(requests_by_ip[ip], clock)
        IN  IF Len(live) < 30
            THEN /\ resp'.status # 429
                 /\ requests_by_ip'[ip] = Append(live, clock)
            ELSE /\ resp'.status = 429
                 /\ Len(live) = 30
                 /\ requests_by_ip'[ip] = live]_vars

\* The 31st request of a window that began 60 seconds ago was denied.
C1_Witness ==
    /\ resp.status = 429
    /\ Len(requests_by_ip["10.0.0.1"]) = 30
    /\ clock - requests_by_ip["10.0.0.1"][1] = 60

\* Admission has resumed: a request was admitted after a full window of 30 expired.
C1_ResumedWitness ==
    /\ resp.status # 429
    /\ run.pruned = 30
    /\ requests_by_ip["10.0.0.1"] = <<clock>>

\* What the arguments of a request mean.
OwnerOf(r) == strip(args_get(r.username, <<"Archidekt_Precons">>))
ModeOf(r) == lower(args_get(r.filter_type, "subset"))
RequestedColors(r) == upper_set(args_get(r.colors, <<"W", "U", "B", "R", "G">>))

FailsValidation(r) ==
    \/ ~(Len(OwnerOf(r)) = 1 /\ OwnerOf(r)[1] \in ALLOWED_USERS)
    \/ ModeOf(r) \notin {"exact", "subset"}
    \/ RequestedColors(r) \ Letters # {}

\* C2: a request that passes validation is served the owner's cached catalog, with
\* no upstream request, exactly when the owner has an entry and now - ts < 300;
\* otherwise (no entry, or age >= 300) the Catalog Fetcher is called.
C2_CacheServedIffFresh ==
    [][(Handled /\ resp'.status # 429 /\ ~FailsValidation(req'.r)) =>
        LET entry == cache_by_user[OwnerOf(req'.r)[1]]
        IN  IF entry.present /\ clock - entry.ts < 300
            THEN /\ run'.hit
                 /\ run'.gets = <<>>
                 /\ run'.all_decks = entry.decks
                 /\ cache_by_user' = cache_by_user
            ELSE /\ ~run'.hit
                 /\ run'.gets # <<>>]_vars

\* An entry 300 seconds old or older was there and the upstream was asked.
C2_Witness ==
    /\ run.step = "upstream"
    /\ req.kind = "pick"
    /\ cache_by_user[OwnerOf(req.r)[1]].present
    /\ run.now - cache_by_user[OwnerOf(req.r)[1]].ts >= 300
    /\ run.gets # <<>>

\* A fresh entry, 150 seconds old, was served without an upstream request.
C2_HitWitness ==
    /\ run.step = "ok"
    /\ run.hit
    /\ run.gets = <<>>
    /\ run.now - cache_by_user[OwnerOf(req.r)[1]].ts = 150

\* C5: a request that the rate limiter admits and that fails validation (owner not
\* in the allow-list, filter_type neither exact nor subset, or a colour character
\* outside W,U,B,R,G after upper-casing) is answered 400; no upstream request is
\* made for it, no cached catalog is read for it and the cache is not written.
C5_ValidationErrorTouchesNothing ==
    [][(Handled /\ FailsValidation(req'.r) /\ resp'.status # 429) =>
        /\ resp'.status = 400
        /\ resp'.body = NoBody
        /\ run'.gets = <<>>
        /\ ~run'.hit
        /\ run'.all_decks = <<>>
        /\ cache_by_user' = cache_by_user]_vars

\* A request with a bad colour character was answered 400 while the owner it names
\* had no cache entry: nothing was fetched for it.
C5_Witness ==
    /\ req.kind = "pick"
    /\ resp.status = 400
    /\ resp.text = "colors is invalid"
    /\ ~cache_by_user["jarnr"].present
    /\ cache_by_user["Archidekt_Precons"].present

\* The colours of a deck: the letters whose count int() turns into a number > 0.
ColorSet(deck) ==
    IF deck.colors.shape # "dict" THEN {}
    ELSE {k \in Letters :
            LET n == int(dict_get(deck.colors.map, k))
            IN  n.exc = "" /\ n.val > 0}

\* The classification of the deck ends (int() raises nothing but what is caught).
Classifiable(deck) ==
    deck.colors.shape = "dict" =>
        \A k \in Letters :
            int(dict_get(deck.colors.map, k)).exc \in {"", "TypeError", "ValueError"}

PassesFilter(r, deck) ==
    /\ Classifiable(deck)
    /\ IF ModeOf(r) = "exact" THEN ColorSet(deck) = RequestedColors(r)
       ELSE ColorSet(deck) \subseteq RequestedColors(r)

\* The request came to a catalog: it was admitted, valid, and the fetch did not fail.
GotCatalog == req.kind = "pick" /\ run.step \in {"empty", "filter_error", "missing_id", "ok"}

\* C6 (as stated): when the catalog is not empty and none of its decks passes the
\* colour filter, the pool is the whole catalog and a deck of the catalog is drawn
\* and returned; the only other answer is the 500 for a drawn deck without id,
\* never an empty result or an error of the filter.
C6_FallbackToFullCatalog ==
    (/\ GotCatalog
     /\ run.all_decks # <<>>
     /\ \A i \in 1..Len(run.all_decks) : ~PassesFilter(req.r, run.all_decks[i])) =>
        /\ run.pool = run.all_decks
        /\ Len(run.chosen) = 1
        /\ run.chosen[1] \in Range(run.all_decks)
        /\ IF run.chosen[1].id = NoId THEN resp.status = 500 ELSE resp.status = 200

\* C7: when a deck was drawn and at least one deck of the catalog passes the
\* filter, the drawn deck passes it (exact: its colour set is the requested set;
\* subset: its colour set is within the requested set), and a 200 response names
\* that deck and carries its ordered colour sequence.
C7_ChosenPassesFilter ==
    (/\ GotCatalog
     /\ Len(run.chosen) = 1
     /\ \E i \in 1..Len(run.all_decks) : PassesFilter(req.r, run.all_decks[i])) =>
        /\ PassesFilter(req.r, run.chosen[1])
        /\ run.chosen[1] \in Range(run.all_decks)
        /\ resp.status = 200 =>
              /\ resp.body.url = <<"https://archidekt.com/decks/">> \o run.chosen[1].id
              /\ resp.body.colors = order_colors(Listing(ColorSet(run.chosen[1])))

\* An exact W,U request drew from a pool of two of three decks and answered W,U.
C7_Witness ==
    /\ GotCatalog
    /\ resp.status = 200
    /\ ModeOf(req.r) = "exact"
    /\ RequestedColors(req.r) = {"W", "U"}
    /\ Len(run.all_decks) = 3
    /\ Len(run.pool) = 2
    /\ resp.body.colors = <<"W", "U">>

\* The first page of the chain that does not answer with a 2xx status (0: none).
FirstFailure(up) ==
    LET bad == {p \in 1..Len(up.pages) :
                  up.pages[p].fail # "" \/ ~(200 <= up.pages[p].status /\ up.pages[p].status < 300)}
    IN  IF bad = {} THEN 0 ELSE CHOOSE p \in bad : \A o \in bad : p <= o

\* C10: when a request fetches the catalog and a page of the chain fails (status
\* not 2xx, network failure or timeout), the pages before it and the failing page
\* are each requested once and nothing after it, the response is 502 without a
\* deck, and the cache is as it was before the request.
C10_FetchFailureIs502 ==
    [][(Handled /\ run'.gets # <<>> /\ FirstFailure(req'.up) # 0) =>
        /\ run'.gets = [j \in 1..FirstFailure(req'.up) |-> <<OwnerOf(req'.r)[1], j>>]
        /\ resp'.status = 502
        /\ resp'.body = NoBody
        /\ run'.chosen = <<>>
        /\ cache_by_user' = cache_by_user]_vars

\* The second page timed out after the first had answered; the owner's entry of
\* 300 seconds ago is still the cache's.
C10_Witness ==
    /\ req.kind = "pick"
    /\ resp.status = 502
    /\ run.exc = "Timeout"
    /\ Len(run.gets) = 2
    /\ cache_by_user["jarnr"].present
    /\ cache_by_user["jarnr"].ts = run.now - 300

\* No owner has a cache entry: no valid request was admitted so far, and every
\* timestamp in a window was appended by a request answered 400.
NothingCached == \A u \in ALLOWED_USERS : ~cache_by_user[u].present

\* C17: admission is decided and recorded before the parameters are validated: a
\* request answered 400 has appended its now to its client's window, and when 30
\* requests, all with invalid parameters, lie within the 60 seconds before now,
\* the client's next request, valid or not, is answered 429 and nothing is fetched.
C17_AdmissionBeforeValidation ==
    [][Handled =>
        LET ip == client_ip(req'.r)
            live == InWindow(requests_by_ip[ip], clock)
        IN  /\ resp'.status = 400 =>
                /\ FailsValidation(req'.r)
                /\ requests_by_ip'[ip] = Append(live, clock)
            /\ (NothingCached /\ Len(live) = 30) =>
                /\ resp'.status = 429
                /\ run'.gets = <<>>
                /\ NothingCached']_vars

\* A valid request was answered 429 after 30 invalid requests, sent 60 seconds
\* before it, had filled the window.
C17_Witness ==
    /\ NothingCached
    /\ resp.status = 429
    /\ ~FailsValidation(req.r)
    /\ Len(requests_by_ip["10.0.0.1"]) = 30
    /\ clock - requests_by_ip["10.0.0.1"][30] = 60

\* C18: a request answered 429 appends nothing to its client's window: the window
\* only loses, from its front, the timestamps more than 60 seconds old.  The
\* answer does not depend on the parameters (none is validated), no upstream
\* request is made, and every cache entry and every other window stay as they were.
C18_DenialChangesNothing ==
    [][(Handled /\ resp'.status = 429) =>
        LET ip == client_ip(req'.r)
        IN  /\ requests_by_ip'[ip] = InWindow(requests_by_ip[ip], clock)
            /\ \A c \in Clients \ {ip} : requests_by_ip'[c] = requests_by_ip[c]
            /\ cache_by_user' = cache_by_user
            /\ run'.gets = <<>>
            /\ run'.step = "rate_limit"
            /\ resp'.text = "Too many requests"]_vars

\* A request with an invalid username was answered 429, not 400, and the window
\* kept its 30 timestamps.
C18_Witness ==
    /\ resp.status = 429
    /\ FailsValidation(req.r)
    /\ run.step = "rate_limit"
    /\ Len(requests_by_ip["10.0.0.1"]) = 30

\* The owner a valid request names, as a set: empty for an invalid request.
OwnersOf(r) == IF FailsValidation(r) THEN {} ELSE {OwnerOf(r)[1]}

\* The entry a successful fetch over the whole chain up at time now produces.
Refreshed(up, now) ==
    [present |-> TRUE, decks |-> Size100(FirstPages(up, Len(up.pages))), ts |-> now]

\* C20: a request changes at most the cache entry of the owner it names, and only
\* when that entry was missing or 300 or more seconds old and every page of the
\* upstream chain answered; a request that finds a fresh entry leaves the whole
\* cache as it was, timestamp included.
C20_CacheFrame ==
    [][Handled =>
        LET changed == {u \in ALLOWED_USERS : cache_by_user'[u] # cache_by_user[u]}
        IN  /\ changed \subseteq OwnersOf(req'.r)
            /\ \A u \in changed :
                /\ resp'.status \notin {429, 400, 502}
                /\ ~(cache_by_user[u].present /\ clock - cache_by_user[u].ts < 300)
                /\ FirstFailure(req'.up) = 0
                /\ run'.gets # <<>>
            /\ \A u \in OwnersOf(req'.r) :
                (cache_by_user[u].present /\ clock - cache_by_user[u].ts < 300)
                    => cache_by_user' = cache_by_user]_vars

\* A request for jarnr was served from jarnr's entry of 150 seconds ago, which kept
\* its timestamp, while the other owner's entry, written at the current time,
\* stayed as well.
C20_Witness ==
    /\ req.kind = "pick"
    /\ OwnersOf(req.r) = {"jarnr"}
    /\ run.hit
    /\ cache_by_user["jarnr"].ts = run.now - 150
    /\ cache_by_user["Archidekt_Precons"].present
    /\ cache_by_user["Archidekt_Precons"].ts = run.now

\* C15: every deck held in a cache entry has size 100, and an entry only ever
\* changes by becoming the pair of the size-100 records of the pages the request
\* just fetched and that request's now: decks and timestamp are replaced together.
C15_CacheHoldsSize100 ==
    /\ [](\A u \in ALLOWED_USERS :
            \A i \in 1..Len(cache_by_user[u].decks) : cache_by_user[u].decks[i].size = 100)
    /\ [][\A u \in ALLOWED_USERS :
            cache_by_user'[u] # cache_by_user[u] =>
                cache_by_user'[u] = Refreshed(req'.up, clock)]_vars

\* An entry was replaced, 300 seconds after it was first written, by the two
\* size-100 decks of a two-page catalog whose third deck has size 60.
C15_Witness ==
    /\ run.now = 300
    /\ Len(run.gets) = 2
    /\ cache_by_user["Archidekt_Precons"] =
           Entry(<<PlainDeck(2, 100), PlainDeck(4, 100)>>, 300)

\* C14 (as stated): every deck of a selection pool has an id, and no request is
\* answered with the 500 "Chosen deck missing id", whatever the catalog.
C14_PoolDecksHaveId ==
    GotCatalog =>
        /\ \A i \in 1..Len(run.pool) : run.pool[i].id # NoId
        /\ ~(resp.status = 500 /\ resp.text = "Chosen deck missing id")

\* The indices of the entries of a table that have exactly the members of S.
Matches(S, table) == {k \in 1..Len(table) : Range(table[k]) = S}

\* C16: the tables of order_colors have 10, 10 and 5 entries and are exhaustive:
\* for every listing of letters of W,U,B,R,G with 2, 3 or 4 distinct letters
\* exactly one entry of the table of that size has the listing's letters, the
\* call returns that entry, and no call reaches the fallback branch.
C16_TablesExhaustive ==
    /\ Len(order2) = 10 /\ Len(order3) = 10 /\ Len(order4) = 5
    /\ Returned("order_colors") =>
        LET S == Range(call.arg)
            n == Cardinality(S)
            table == IF n = 2 THEN order2 ELSE IF n = 3 THEN order3 ELSE order4
        IN  /\ order_branch(call.arg) # "fallback"
            /\ n \in {2, 3, 4} =>
                /\ Cardinality(Matches(S, table)) = 1
                /\ \A k \in Matches(S, table) : call.ret.val = table[k]

\* Four letters, listed in another order than the table's, came back as the one
\* entry of the four-colour table without W,U,B,R,G order: G,W,U,B.
C16_Witness ==
    /\ Returned("order_colors")
    /\ call.arg = <<"B", "G", "U", "W">>
    /\ order_branch(call.arg) = "order4"
    /\ call.ret.val = <<"G", "W", "U", "B">>

(***************************************************************************)
(* SpecClients: two clients behind one proxy, told apart by the            *)
(* X-Forwarded-For header, send requests in any interleaving; every        *)
(* timestamp expires with a step of ClientTick seconds.                    *)
(***************************************************************************)
ClientTick == 61
ClientMaxTime == 61

ClientRequests ==
    { Request(AbsentWord, "10.0.0.1", Absent, AbsentWord, Absent),
      Request(Arg("10.0.0.2"), "10.0.0.1", Arg(<<"mallory">>), AbsentWord, Absent) }

TickClients == Tick(ClientTick, ClientMaxTime)

PickClients == \E r \in ClientRequests : Pick(r, RateChain)

NextClients == TickClients \/ PickClients

SpecClients == InitPick /\ [][NextClients]_vars

\* The identity of the client of a request: the X-Forwarded-For header when the
\* request has one, else the peer address; "unknown" when that is empty.
ClientOf(r) ==
    IF r.xff.given THEN (IF r.xff.s = "" THEN "unknown" ELSE r.xff.s)
    ELSE IF r.remote_addr = "" THEN "unknown" ELSE r.remote_addr

\* C19: a request changes no window but its own client's, and whether it is denied
\* depends only on its own client's window and its now: it is denied exactly when
\* 30 timestamps of that window lie within the 60 seconds before now, and the
\* window becomes those timestamps, with now appended when the request is admitted.
\* So the outcomes of a client's requests are the same in every interleaving with
\* the requests of other clients.
C19_ClientsIsolated ==
    [][Handled =>
        LET ip == ClientOf(req'.r)
            live == InWindow(requests_by_ip[ip], clock)
            denied == Len(live) >= 30
        IN  /\ \A c \in Clients \ {ip} : requests_by_ip'[c] = requests_by_ip[c]
            /\ run'.ip = ip
            /\ (resp'.status = 429) <=> denied
            /\ requests_by_ip'[ip] = IF denied THEN live ELSE Append(live, clock)]_vars

\* The second client was admitted for the second time while the first client's
\* window was full, and the first client was denied while the second's was not.
C19_Witness ==
    /\ ClientOf(req.r) = "10.0.0.2"
    /\ resp.status = 400
    /\ Len(requests_by_ip["10.0.0.2"]) = 2
    /\ Len(requests_by_ip["10.0.0.1"]) = 30
    /\ requests_by_ip["10.0.0.1"][1] = clock

C19_DeniedWitness ==
    /\ ClientOf(req.r) = "10.0.0.1"
    /\ resp.status = 429
    /\ Len(requests_by_ip["10.0.0.2"]) = 1
    /\ requests_by_ip["10.0.0.2"][1] = clock

(***************************************************************************)
(* Requests handled by concurrent threads.  The server runs one thread per *)
(* request and the handler takes no lock, so the threads interleave        *)
(* between any two accesses of requests_by_ip and cache_by_user.  Each     *)
(* action below is one such access together with the statements that       *)
(* follow it and touch only the thread's locals.                           *)
(***************************************************************************)
Done(th, response) == [th EXCEPT !.pc = "done", !.resp = response]

\* lines 211-241: the response once the catalog is known, and whether a deck was
\* drawn for it.
respond(r, all_decks, choice) ==
    LET filter_type == lower(args_get(r.filter_type, "subset"))
        colors == upper_set(args_get(r.colors, <<"W", "U", "B", "R", "G">>))
        raising == {i \in 1..Len(all_decks) : deck_colors(all_decks[i]).exc # ""}
        filtered == SelectSeq(all_decks,
                       LAMBDA d : passes(filter_type, colors, deck_colors(d).val))
        decks_pool == IF filtered # <<>> THEN filtered ELSE all_decks
        chosen == decks_pool[((choice - 1) % Len(decks_pool)) + 1]
        deck_url == build_deck_url(chosen)
    IN  IF all_decks = <<>>
        THEN [resp |-> Response("No decks found", 404), drawn |-> FALSE]
        ELSE IF raising # {}
        THEN [resp |-> Response("Internal Server Error", 500), drawn |-> FALSE]
        ELSE IF deck_url = <<>>
        THEN [resp |-> Response("Chosen deck missing id", 500), drawn |-> TRUE]
        ELSE [resp |-> jsonify([url |-> deck_url, title |-> deck_title(chosen),
                                image |-> chosen.featured,
                                colors |-> deck_colors(chosen).val]),
              drawn |-> TRUE]

\* lines 182-194: the 400 response of the validation, NoResp when it passes.
validate(r) ==
    LET username == strip(args_get(r.username, <<"Archidekt_Precons">>))
        filter_type == lower(args_get(r.filter_type, "subset"))
        colors == upper_set(args_get(r.colors, <<"W", "U", "B", "R", "G">>))
    IN  IF ~username_allowed(username) THEN Response("username is invalid", 400)
        ELSE IF ~filter_type_valid(filter_type) THEN Response("filter_type is invalid", 400)
        ELSE IF ~colors_valid(colors) THEN Response("colors is invalid", 400)
        ELSE NoResp

\* The validated username of a thread's request.
owner_of(r) == strip(args_get(r.username, <<"Archidekt_Precons">>))[1]

cache_put_torn(cache, username, all_decks, now) ==
    [cache EXCEPT ![username] = [present |-> TRUE, decks |-> all_decks, ts |-> @.ts]]
\* cache_by_user[username] = {"decks": all_decks, "ts": now}
cache_put(cache, username, all_decks, now) ==
    [cache EXCEPT ![username] = Entry(all_decks, now)]

\* lines 173-175: a thread takes a request and captures its now.
Start(t, r) ==
    /\ threads[t].pc \in {"idle", "done"}
    /\ threads' = [threads EXCEPT ![t] = [Idle EXCEPT !.pc = "while", !.r = r, !.now = clock]]
    /\ UNCHANGED <<clock, requests_by_ip, cache_by_user, req, resp, run, call>>

\* line 176: the loop condition, q and (now - q[0]) > RATE_LIMIT_WINDOW.
LoopTest(t) ==
    /\ threads[t].pc = "while"
    /\ LET q == requests_by_ip[client_ip(threads[t].r)]
       IN  threads' = [threads EXCEPT ![t].pc =
                          IF q # <<>> /\ expired(threads[t].now, Head(q))
                          THEN "popleft" ELSE "len"]
    /\ UNCHANGED <<clock, requests_by_ip, cache_by_user, req, resp, run, call>>

\* line 177: q.popleft() removes whatever is at the front now; on a deque that
\* another thread has emptied it raises IndexError, which nothing catches.
PopLeft(t) ==
    /\ threads[t].pc = "popleft"
    /\ LET ip == client_ip(threads[t].r)
           q == requests_by_ip[ip]
       IN  IF q = <<>>
           THEN /\ threads' = [threads EXCEPT
                      ![t] = Done(@, Response("Internal Server Error", 500))]
                /\ UNCHANGED requests_by_ip
           ELSE /\ requests_by_ip' = [requests_by_ip EXCEPT ![ip] = Tail(q)]
                /\ threads' = [threads EXCEPT ![t].pc = "while"]
    /\ UNCHANGED <<clock, cache_by_user, req, resp, run, call>>

\* lines 178-179: the length check.
LenCheck(t) ==
    /\ threads[t].pc = "len"
    /\ threads' = [threads EXCEPT ![t] =
                      IF limit_reached(requests_by_ip[client_ip(threads[t].r)])
                      THEN Done(@, Response("Too many requests", 429))
                      ELSE [@ EXCEPT !.pc = "append"]]
    /\ UNCHANGED <<clock, requests_by_ip, cache_by_user, req, resp, run, call>>

\* lines 180-194: q.append(now), then the validation of the parameters.
AppendNow(t) ==
    /\ threads[t].pc = "append"
    /\ LET ip == client_ip(threads[t].r)
       IN  requests_by_ip' =
               [requests_by_ip EXCEPT ![ip] = Append(@, threads[t].now)]
    /\ threads' = [threads EXCEPT ![t] =
                      IF validate(threads[t].r) # NoResp
                      THEN Done(@, validate(threads[t].r))
                      ELSE [@ EXCEPT !.pc = "get"]]
    /\ UNCHANGED <<clock, cache_by_user, req, resp, run, call>>

\* lines 197-200: cache_by_user.get(username) and the freshness test; on a hit the
\* cached list is the catalog and the response follows.
CacheGet(t) ==
    /\ threads[t].pc = "get"
    /\ LET cached == cache_by_user[owner_of(threads[t].r)]
       IN  IF fresh(cached, threads[t].now)
           THEN \E choice \in 1..MaxDraw :
                    \E out \in {respond(threads[t].r, cached.decks, choice)} :
                        /\ out.drawn \/ choice = 1
                        /\ threads' = [threads EXCEPT ![t] =
                               Done([@ EXCEPT !.hit = TRUE, !.decks = cached.decks],
                                    out.resp)]
           ELSE threads' = [threads EXCEPT ![t].pc = "fetch"]
    /\ UNCHANGED <<clock, requests_by_ip, cache_by_user, req, resp, run, call>>

\* line 202 and lines 204-209: fetch_all_decks(api_url) against the upstream up;
\* an exception ends the request.
Fetch(t, up) ==
    /\ threads[t].pc = "fetch"
    /\ \E fetched \in {fetch_all_decks(UserUrl(owner_of(threads[t].r)), up)} :
           threads' = [threads EXCEPT ![t] =
               IF fetched.exc = ""
               THEN [@ EXCEPT !.pc = "put", !.decks = fetched.val, !.gets = fetched.gets]
               ELSE Done([@ EXCEPT !.gets = fetched.gets],
                         IF caught(fetched.exc) THEN Response("Upstream error", 502)
                         ELSE Response("Internal Server Error", 500))]
    /\ UNCHANGED <<clock, requests_by_ip, cache_by_user, req, resp, run, call>>

\* line 203: the write of the entry, and the response that follows it.
CachePut(t) ==
    /\ threads[t].pc = "put"
    /\ cache_by_user' = cache_put(cache_by_user, owner_of(threads[t].r),
                                  threads[t].decks, threads[t].now)
    /\ \E choice \in 1..MaxDraw :
           \E out \in {respond(threads[t].r, threads[t].decks, choice)} :
               /\ out.drawn \/ choice = 1
               /\ threads' = [threads EXCEPT ![t] = Done(@, out.resp)]
    /\ UNCHANGED <<clock, requests_by_ip, req, resp, run, call>>

\* The requests of client ip that are in a window or on their way into one with
\* the current time.
InFlight(ip) ==
    Burst(ip) + Cardinality({t \in Threads :
                                /\ threads[t].pc \in {"while", "popleft", "len", "append"}
                                /\ client_ip(threads[t].r) = ip
                                /\ threads[t].now = clock})

(***************************************************************************)
(* SpecAdmission: the threads handle requests of one client that carry an  *)
(* invalid username, so each request ends right after its admission; a     *)
(* step of RaceTick seconds expires every timestamp.                       *)
(***************************************************************************)
RaceTick == 61
RaceMaxTime == 61

RaceRequests ==
    { Request(AbsentWord, "10.0.0.1", Arg(<<"mallory">>), AbsentWord, Absent) }

TickRace == Tick(RaceTick, RaceMaxTime)
StartRace == \E t \in Threads, r \in RaceRequests : Start(t, r)
LoopTestAny == \E t \in Threads : LoopTest(t)
PopLeftAny == \E t \in Threads : PopLeft(t)
LenCheckAny == \E t \in Threads : LenCheck(t)
AppendNowAny == \E t \in Threads : AppendNow(t)

NextAdmission ==
    TickRace \/ StartRace \/ LoopTestAny \/ PopLeftAny \/ LenCheckAny \/ AppendNowAny

SpecAdmission == InitPick /\ [][NextAdmission]_vars

(***************************************************************************)
(* SpecRefresh: the threads handle valid requests for one owner against an *)
(* upstream whose catalog changes or fails; at most RefreshBurst requests  *)
(* carry the same time.                                                    *)
(***************************************************************************)
RefreshTick == 150
RefreshMaxTime == 300
RefreshBurst == 2

RefreshRequests == { Request(AbsentWord, "10.0.0.1", Absent, AbsentWord, Absent) }

RefreshChains ==
    { OnePage(<<PlainDeck(1, 100)>>),
      OnePage(<<PlainDeck(2, 100), PlainDeck(3, 60)>>),
      [pages |-> << Page("", 503, TRUE, <<PlainDeck(1, 100)>>) >>, back |-> 0] }

TickRefresh == Tick(RefreshTick, RefreshMaxTime)
StartRefresh ==
    \E t \in Threads, r \in RefreshRequests :
        /\ InFlight(client_ip(r)) < RefreshBurst
        /\ Start(t, r)
CacheGetAny == \E t \in Threads : CacheGet(t)
FetchAny == \E t \in Threads, up \in RefreshChains : Fetch(t, up)
CachePutAny == \E t \in Threads : CachePut(t)

NextRefresh ==
    \/ TickRefresh \/ StartRefresh \/ LoopTestAny \/ PopLeftAny \/ LenCheckAny
    \/ AppendNowAny \/ CacheGetAny \/ FetchAny \/ CachePutAny

SpecRefresh == InitPick /\ [][NextRefresh]_vars

\* C11 (as stated): in every reachable state, concurrent requests of one client
\* included, a client's window holds at most 30 timestamps.
C11_WindowAtMostThirty ==
    \A c \in Clients : Len(requests_by_ip[c]) <= 30

\* Thread t ends its admission check with this step: it is denied at the length
\* check, or it appends its now.
AdmissionChecked(t) ==
    \/ threads[t].pc = "len" /\ threads'[t].pc = "done"
    \/ threads[t].pc = "append" /\ threads'[t].pc # "append"

Ordered(q) == \A i, j \in 1..Len(q) : i <= j => q[i] <= q[j]

\* C13 (as stated): after every admission check, in every interleaving, the window
\* of the client is ordered oldest first and holds no timestamp more than 60
\* seconds older than the now of that check.
C13_WindowOrderedAndLive ==
    [][\A t \in Threads :
        AdmissionChecked(t) =>
            LET q == requests_by_ip'[client_ip(threads[t].r)]
            IN  /\ Ordered(q)
                /\ \A i \in 1..Len(q) : threads[t].now - q[i] <= 60]_vars

\* The pair a thread that fetched holds: the entry its write produces.
Written(th) == [present |-> TRUE, decks |-> th.decks, ts |-> th.now]

\* Thread t handled its request to the end, found no fresh entry, fetched and
\* wrote the entry.
Refetched(t) ==
    /\ threads[t].pc = "done"
    /\ ~threads[t].hit
    /\ threads[t].gets # <<>>
    /\ threads[t].resp.status = 200

\* C12: a thread that found no fresh entry leaves the fetch only by its own
\* upstream requests, whatever the other thread fetched or wrote meanwhile; an
\* entry changes only by the write of a thread, to the decks that thread fetched
\* together with that thread's now; and once two threads have each fetched and
\* written for the same owner, the entry is the pair of one of them, never the
\* decks of one with the timestamp of the other.
C12_LastWriterWins ==
    /\ []((\A t \in Threads : Refetched(t)) =>
            \E t \in Threads :
                cache_by_user[owner_of(threads[t].r)] = Written(threads[t]))
    /\ [][/\ \A t \in Threads :
                (threads[t].pc = "fetch" /\ threads'[t].pc # "fetch") =>
                    threads'[t].gets # <<>>
          /\ \A u \in ALLOWED_USERS :
                cache_by_user'[u] # cache_by_user[u] =>
                    \E t \in Threads :
                        /\ threads[t].pc = "put" /\ threads'[t].pc = "done"
                        /\ owner_of(threads[t].r) = u
                        /\ cache_by_user'[u] = Written(threads[t])]_vars

\* Two threads missed and fetched different catalogs for the same owner, one with
\* now 0 and one with now 150; the one that began first wrote last, and the entry
\* is its pair.
C12_Witness ==
    /\ \A t \in Threads : Refetched(t)
    /\ threads[1].now = 0 /\ threads[2].now = 150
    /\ threads[1].decks # threads[2].decks
    /\ cache_by_user["Archidekt_Precons"] = Written(threads[1])

=============================================================================
